---------------------------- MODULE Spec2Model ----------------------------
(***************************************************************************)
(* Wallet-count resolution and job-parameter reconciliation of the crypto *)
(* scheduler dashboard: the route-level resolver (app/api/scheduler.py),  *)
(* the service-level resolver and the Cloud Scheduler wrapper             *)
(* (app/services/scheduler.py) and the Redis cache (app/services/cache.py)*)
(***************************************************************************)
EXTENDS Integers, Sequences, FiniteSets, TLC

VARIABLES
    now,      \* wall-clock time in seconds
    cache,    \* Redis: key -> entry held by CacheService.redis_client
    last,     \* the latest wallet-count resolution (who, API outcome, result)
    prev,     \* summary of the resolution before `last`
    wrap,     \* calls of a function wrapped by cached(): tasks, cache calls
    mode,     \* "live": SchedulerService.client is set; "mock": it is None
    store,    \* the jobs held by Cloud Scheduler: job id -> job
    req,      \* the request being handled: inputs, position, locals, response
    nreq      \* number of requests received

rvars == <<now, cache, last, prev, wrap>>
jvars == <<mode, store, req, nreq>>
vars == <<now, cache, last, prev, wrap, mode, store, req, nreq>>

-----------------------------------------------------------------------------
(* Bounds *)

MaxN == 12          \* wallet counts N carried by the supported shapes: 0..MaxN
MaxTime == 300      \* the clock stops here
TickStep == 150     \* seconds that pass in one Tick
MaxTokens == 6      \* cron inputs of 0..MaxTokens tokens
MaxReq == 2         \* requests handled in one behaviour
MaxRounds == 3      \* calls of the cached() wrapper in one behaviour

(* Program constants *)

Fallback == 1000    \* the fallback wallet count
Ttl == 300          \* default ttl of cached()

None == [t |-> "null", v |-> 0]     \* Python None / JSON null

-----------------------------------------------------------------------------
(* Python / JSON values.  A value is [t |-> type, v |-> payload].          *)

IntV(n) == [t |-> "int", v |-> n]
FloatV(tenths) == [t |-> "float", v |-> tenths]   \* tenths/10, e.g. 25 is 2.5
NanV == [t |-> "nan", v |-> 0]                    \* JSON NaN, accepted by json.loads
BoolV(b) == [t |-> "bool", v |-> IF b THEN 1 ELSE 0]
StrV(s) == [t |-> "str", v |-> s]                 \* s: sequence of characters
ListV == [t |-> "list", v |-> 0]
ObjV(items) == [t |-> "obj", v |-> items]         \* items: sequence of <<key, value>>
TextV(s) == [t |-> "text", v |-> s]               \* a body that is not JSON

DigitChars == <<"0", "1", "2", "3", "4", "5", "6", "7", "8", "9">>

IsAsciiDigit(c) == \E i \in 1..10 : DigitChars[i] = c

DigitVal(c) == CHOOSE i \in 0..9 : DigitChars[i + 1] = c

\* str(n) for n >= 0
RECURSIVE ToDigits(_)
ToDigits(n) ==
    IF n < 10 THEN <<DigitChars[n + 1]>>
    ELSE ToDigits(n \div 10) \o <<DigitChars[(n % 10) + 1]>>

\* str.isdigit(): non-empty and every character is a digit; the superscript
\* two ("sup2") is a digit for isdigit() but not for int()
IsDigitStr(s) ==
    /\ Len(s) > 0
    /\ \A i \in 1..Len(s) : IsAsciiDigit(s[i]) \/ s[i] = "sup2"

\* str.isspace() of one character
IsSpace(c) == c \in {" ", "tab", "nl"}

RECURSIVE StripLeft(_)
StripLeft(s) ==
    IF Len(s) > 0 /\ IsSpace(Head(s)) THEN StripLeft(Tail(s)) ELSE s

RECURSIVE StripRight(_)
StripRight(s) ==
    IF Len(s) > 0 /\ IsSpace(s[Len(s)])
    THEN StripRight(SubSeq(s, 1, Len(s) - 1)) ELSE s

\* str.strip()
Strip(s) == StripRight(StripLeft(s))

RECURSIVE DecimalValue(_)
DecimalValue(s) ==
    IF Len(s) = 0 THEN 0
    ELSE 10 * DecimalValue(SubSeq(s, 1, Len(s) - 1)) + DigitVal(s[Len(s)])

\* str.split(): the maximal runs of non-whitespace characters
RECURSIVE SplitWs(_)
SplitWs(s) ==
    LET t == StripLeft(s)
    IN  IF Len(t) = 0 THEN <<>>
        ELSE LET stops == { i \in 1..Len(t) : IsSpace(t[i]) }
                 k == IF stops = {} THEN Len(t) + 1
                      ELSE CHOOSE i \in stops : \A j \in stops : i <= j
             IN  <<SubSeq(t, 1, k - 1)>> \o SplitWs(SubSeq(t, k, Len(t)))

Raise == [exc |-> TRUE, val |-> None]
Ret(x) == [exc |-> FALSE, val |-> x]

\* int(s) for a str s: surrounding whitespace, an optional sign, decimal
\* digits; anything else raises ValueError
PyIntOfStr(s) ==
    LET body == Strip(s)
        signed == Len(body) > 0 /\ Head(body) \in {"+", "-"}
        digits == IF signed THEN Tail(body) ELSE body
    IN  IF Len(digits) > 0 /\ \A i \in 1..Len(digits) : IsAsciiDigit(digits[i])
        THEN Ret(IntV(IF signed /\ Head(body) = "-"
                      THEN 0 - DecimalValue(digits) ELSE DecimalValue(digits)))
        ELSE Raise

\* int(x) for a number x: truncation toward zero; int(nan) raises
PyIntOfNumber(x) ==
    CASE x.t = "int" -> Ret(x)
      [] x.t = "bool" -> Ret(IntV(x.v))
      [] x.t = "float" ->
            Ret(IntV(IF x.v >= 0 THEN x.v \div 10 ELSE 0 - ((0 - x.v) \div 10)))
      [] OTHER -> Raise

\* isinstance(data, (int, float)): bool is a subclass of int
IsNumber(x) == x.t \in {"int", "float", "bool", "nan"}

IsDict(x) == x.t = "obj"

HasKey(d, k) == \E i \in 1..Len(d.v) : d.v[i][1] = k

DictGet(d, k) == d.v[CHOOSE i \in 1..Len(d.v) : d.v[i][1] = k][2]

\* response.text of a body: only read after response.json() or int() raised
Quote == "dq"
RawText(b) ==
    CASE b.t = "text" -> b.v
      [] b.t = "str" -> <<Quote>> \o b.v \o <<Quote>>
      [] b.t = "nan" -> <<"N", "a", "N">>
      [] OTHER -> <<"?">>

-----------------------------------------------------------------------------
(* The wallet API: what one GET {wallet_api_url}/wallets/count can yield.  *)

NetError == [kind |-> "error", status |-> 0, body |-> None]
Http(s, b) == [kind |-> "http", status |-> s, body |-> b]

Ns == 0..MaxN

OddFieldVals ==
    { IntV(0 - 3), None, StrV(<<"4", "2">>), StrV(<<"a">>), FloatV(25), ListV,
      ObjV(<<>>) }

\* {"count": N}, {"x": N}, N, "N"
SupportedBodies ==
    UNION { { ObjV(<< <<"count", IntV(n)>> >>),
              ObjV(<< <<"x", IntV(n)>> >>),
              IntV(n),
              StrV(ToDigits(n)) } : n \in Ns }

\* a `count` field next to another field, in either order
CountAmongOthers ==
    UNION { { ObjV(<< <<"count", IntV(n)>>, <<"x", IntV(n + 1)>> >>),
              ObjV(<< <<"x", IntV(n + 1)>>, <<"count", IntV(n)>> >>) } : n \in Ns }

OddFieldBodies ==
    UNION { { ObjV(<< <<"count", w>> >>), ObjV(<< <<"x", w>> >>) } : w \in OddFieldVals }

OddNumberBodies ==
    { IntV(0 - 3), FloatV(25), FloatV(0 - 25), NanV, BoolV(TRUE), BoolV(FALSE) }

\* two or more fields and no `count`, not-all-digit strings, lists, empty body
UnsupportedBodies ==
    { ObjV(<< <<"x", IntV(1)>>, <<"y", IntV(2)>> >>),
      ObjV(<< <<"x", IntV(1)>>, <<"y", IntV(2)>>, <<"z", IntV(3)>> >>),
      StrV(<<>>), StrV(<<"a", "b">>), StrV(<<"1", "a">>), StrV(<<"-", "5">>),
      StrV(<<" ", "5">>),
      ListV,
      TextV(<<>>), TextV(<<" ", " ">>), TextV(<<"a", "b">>), TextV(<<"-">>) }

OtherBodies ==
    { ObjV(<<>>), None, StrV(<<"sup2">>), StrV(<<"0", "7">>),
      TextV(<<"+", "5">>), TextV(<<"0", "7">>), TextV(<<" ", "+", "5", " ">>) }

Bodies ==
    SupportedBodies \cup CountAmongOthers \cup OddFieldBodies
        \cup OddNumberBodies \cup UnsupportedBodies \cup OtherBodies

Statuses == {200, 204, 404, 500, 503}

ApiOutcomes ==
    {NetError} \cup { Http(200, b) : b \in Bodies }
               \cup { Http(s, IntV(5)) : s \in Statuses \ {200} }

-----------------------------------------------------------------------------
(* Service-level resolver: SchedulerService.get_wallet_count               *)

\* ServiceNormalize with the last branch yielding the default of data.get
ServiceNormalize_ElseZero(body) ==
    IF body.t = "text" THEN Raise
    ELSE IF IsDict(body) /\ HasKey(body, "count") THEN Ret(DictGet(body, "count"))
    ELSE IF IsDict(body) /\ Len(body.v) = 1 THEN Ret(body.v[1][2])
    ELSE IF IsNumber(body) THEN PyIntOfNumber(body)
    ELSE IF body.t = "str" /\ IsDigitStr(body.v) THEN PyIntOfStr(body.v)
    ELSE Ret(IntV(0))

\* the body of the `if response.status_code == 200` branch
ServiceNormalize(body) ==
    IF body.t = "text" THEN Raise                        \* response.json() raises
    ELSE IF IsDict(body) /\ HasKey(body, "count") THEN Ret(DictGet(body, "count"))
    ELSE IF IsDict(body) /\ Len(body.v) = 1 THEN Ret(body.v[1][2])
    ELSE IF IsNumber(body) THEN PyIntOfNumber(body)
    ELSE IF body.t = "str" /\ IsDigitStr(body.v) THEN PyIntOfStr(body.v)
    ELSE Ret(IntV(Fallback))

\* the body of the try block
ServiceTry(o) ==
    IF o.kind = "error" THEN Raise                       \* client.get raises
    ELSE IF o.status = 200 THEN ServiceNormalize(o.body)
    ELSE Ret(IntV(Fallback))

\* ServiceGetWalletCount without its except clause
ServiceGetWalletCount_NoExcept(o) ==
    LET r == ServiceTry(o)
    IN  [exc |-> r.exc, val |-> r.val, gets |-> 1]

\* the whole method: [exc, val, gets]; gets counts the GETs it issued
ServiceGetWalletCount(o) ==
    LET r == ServiceTry(o)
    IN  [exc |-> FALSE,
         val |-> IF r.exc THEN IntV(Fallback) ELSE r.val,
         gets |-> 1]

-----------------------------------------------------------------------------
(* Route-level resolver: get_wallet_count of the API router                *)

\* RouteShapes without the digit-string branch
RouteShapes_NoDigitString(body) ==
    IF body.t = "text" THEN Raise
    ELSE IF IsDict(body) /\ HasKey(body, "count") THEN Ret(DictGet(body, "count"))
    ELSE IF IsDict(body) /\ Len(body.v) = 1 THEN Ret(body.v[1][2])
    ELSE IF IsNumber(body) THEN PyIntOfNumber(body)
    ELSE Ret(IntV(Fallback))

\* the chain of isinstance tests on the parsed body; a raise leaves the try
RouteShapes(body) ==
    IF body.t = "text" THEN Raise                        \* response.json() raises
    ELSE IF IsDict(body) /\ HasKey(body, "count") THEN Ret(DictGet(body, "count"))
    ELSE IF IsDict(body) /\ Len(body.v) = 1 THEN Ret(body.v[1][2])
    ELSE IF IsNumber(body) THEN PyIntOfNumber(body)
    ELSE IF body.t = "str" /\ IsDigitStr(body.v) THEN PyIntOfStr(body.v)
    ELSE Ret(IntV(Fallback))

\* inner try / except Exception / try / except ValueError
RouteNormalize(body) ==
    LET r == RouteShapes(body)
        t == PyIntOfStr(Strip(RawText(body)))
    IN  IF ~r.exc THEN r.val
        ELSE IF ~t.exc THEN t.val
        ELSE IntV(Fallback)

Dict(success, count, source) ==
    [success |-> success, count |-> count, source |-> source]

FallbackDict == Dict(FALSE, IntV(Fallback), "fallback")

\* the body of the outer try block
RouteTry(o) ==
    IF o.kind = "error" THEN Raise                       \* client.get raises
    ELSE IF o.status = 200
         THEN Ret(Dict(TRUE, RouteNormalize(o.body), "wallet-api"))
    ELSE Ret(FallbackDict)

\* the whole handler: [exc, val, gets]
RouteGetWalletCount(o) ==
    LET r == RouteTry(o)
    IN  [exc |-> FALSE,
         val |-> IF r.exc THEN FallbackDict ELSE r.val,
         gets |-> 1]

-----------------------------------------------------------------------------
(* Jobs: the SchedulerJob / Cloud Scheduler job and the mock jobs          *)

JobIds ==
    {"crypto-buy-analysis-ethereum", "crypto-sell-analysis-ethereum",
     "crypto-buy-analysis-base"}

Given == [text |-> "given", count |-> None]       \* a caller-supplied description
NoDescription == [text |-> "none", count |-> None]
\* f"{network} {analysis_type} analysis with all {count} wallets"
AutoDescription(count) == [text |-> "auto", count |-> count]

NoJob ==
    [present |-> FALSE, schedule |-> <<>>, state |-> "ENABLED",
     network |-> "ethereum", analysis_type |-> "buy", num_wallets |-> None,
     days_back |-> 0, description |-> NoDescription]

Job(schedule, state, network, analysis_type, num_wallets, days_back, description) ==
    [present |-> TRUE, schedule |-> schedule, state |-> state,
     network |-> network, analysis_type |-> analysis_type,
     num_wallets |-> num_wallets, days_back |-> days_back,
     description |-> description]

Star == <<"*">>

\* k fields "*" separated by single spaces
RECURSIVE Cron(_)
Cron(k) ==
    IF k = 0 THEN <<>>
    ELSE IF k = 1 THEN Star
    ELSE Cron(k - 1) \o <<" ">> \o Star

Every4h == <<"0", " ", "*", "/", "4">> \o <<" ">> \o Cron(3)           \* "0 */4 * * *"
Every6h30 == <<"3", "0", " ", "*", "/", "6">> \o <<" ">> \o Cron(3)   \* "30 */6 * * *"
Quarterly == <<"*", "/", "1", "5">> \o <<" ">> \o Cron(4)              \* "*/15 * * * *"
FourFields == <<"*", "/", "1", "5">> \o <<" ">> \o Cron(3)             \* "*/15 * * *"

EmptyStore == [i \in JobIds |-> NoJob]

\* _get_mock_jobs
MockJobs ==
    [i \in JobIds |->
        CASE i = "crypto-buy-analysis-ethereum" ->
                Job(Every4h, "ENABLED", "ethereum", "buy", None, 0, Given)
          [] i = "crypto-sell-analysis-ethereum" ->
                Job(Every6h30, "PAUSED", "ethereum", "sell", None, 0, Given)
          [] OTHER -> NoJob]

\* jobs Cloud Scheduler may hold when the service starts
SeedStore ==
    [i \in JobIds |->
        CASE i = "crypto-buy-analysis-ethereum" ->
                Job(Every4h, "ENABLED", "ethereum", "buy", IntV(5), 1, Given)
          [] i = "crypto-sell-analysis-ethereum" ->
                Job(Every6h30, "PAUSED", "ethereum", "sell", IntV(7), 7,
                    AutoDescription(IntV(7)))
          [] OTHER ->
                Job(Cron(5), "DISABLED", "base", "buy", IntV(Fallback), 1,
                    AutoDescription(IntV(Fallback)))]

InitStores ==
    { EmptyStore, SeedStore,
      [SeedStore EXCEPT !["crypto-buy-analysis-base"] = NoJob] }

\* list_jobs: the mock jobs without a client, [] when the listing raises
ListJobs(listFails) ==
    IF mode = "mock" THEN MockJobs
    ELSE IF listFails THEN EmptyStore
    ELSE store

\* SchedulerService.get_job: the listed job of that id, or None
GetJob(id, listFails) == ListJobs(listFails)[id]

\* what the wallet API answers while a job request is handled
JobApiOutcomes ==
    { NetError,
      Http(200, ObjV(<< <<"count", IntV(5)>> >>)),
      Http(200, ObjV(<< <<"count", IntV(7)>> >>)) }

-----------------------------------------------------------------------------
(* Requests *)

\* JobCreateRequest bodies
JobRequests ==
    { [network |-> "base", analysis_type |-> "buy", schedule |-> Quarterly,
       description |-> NoDescription, num_wallets |-> IntV(0), days_back |-> 1],
      [network |-> "ethereum", analysis_type |-> "sell", schedule |-> Every6h30,
       description |-> Given, num_wallets |-> IntV(3), days_back |-> 7] }

NoJobRequest ==
    [network |-> "ethereum", analysis_type |-> "buy", schedule |-> <<>>,
     description |-> NoDescription, num_wallets |-> IntV(0), days_back |-> 0]

CronTexts ==
    { Cron(k) : k \in 0..MaxTokens }
        \cup { Quarterly, FourFields, <<" ", " ">>,
               <<" ">> \o Cron(5) \o <<"nl">>,
               Cron(2) \o <<" ", "tab">> \o Cron(3) }

\* schedule_update.get("schedule"): missing, a string, or not a string
ScheduleInputs == { None, IntV(5) } \cup { StrV(c) : c \in CronTexts }

\* the methods of google.cloud.scheduler_v1.CloudSchedulerClient in use
CallNames ==
    {"list_jobs", "get_job", "create_job", "update_job", "pause_job",
     "resume_job", "run_job", "delete_job"}

\* the JSON object posted to the analysis function
NoPayload ==
    [network |-> "none", analysis_type |-> "none", num_wallets |-> None,
     days_back |-> 0]

Idle ==
    [op |-> "none", id |-> "crypto-buy-analysis-ethereum", pc |-> "done",
     job_request |-> NoJobRequest, supplied |-> IntV(0), new_schedule |-> None,
     actual_wallet_count |-> None, wallet_source |-> "none",
     max_wallet_count |-> None, current_job |-> NoJob,
     status |-> 0, pre |-> EmptyStore,    \* pre: the jobs when it arrived
     \* the JobStore calls the handler attempted, and those that raised
     calls |-> [c \in CallNames |-> 0], failed |-> {},
     \* the body of a normal response
     success |-> FALSE, scheduler_success |-> FALSE,
     updated_count |-> 0, todo |-> << >>, rewritten |-> {},
     \* pause-all / resume-all: len(results), the ids in results, those
     \* with success
     total |-> 0, attempted |-> {}, succeeded |-> {},
     \* the count resolved by the request before this one, when that was a
     \* refresh_all against the JobStore none of whose calls failed
     before |-> None,
     \* the direct POST to settings.crypto_function_url
     invoke |-> "none", payload |-> NoPayload]

\* the count of a finished refresh_all all of whose JobStore calls worked
CleanRefreshCount(r) ==
    IF r.op = "refresh_all" /\ r.pc = "done" /\ r.failed = {}
    THEN r.max_wallet_count ELSE None

Receive(op, id, pc) ==
    [Idle EXCEPT !.op = op, !.id = id, !.pc = pc, !.pre = ListJobs(FALSE),
                 !.before = CleanRefreshCount(req)]

\* the handler returns or raises HTTPException(status)
Respond(r, status) == [r EXCEPT !.pc = "done", !.status = status]

\* one call of a method of self.client; raised: it threw
Called(r, name, raised) ==
    [r EXCEPT !.calls[name] = @ + 1,
              !.failed = IF raised THEN @ \cup {name} ELSE @]

CanReceive == req.pc = "done" /\ nreq < MaxReq

\* Python truthiness of `not x`
Falsy(x) ==
    \/ x = None
    \/ x.t = "str" /\ Len(x.v) = 0
    \/ x.t \in {"int", "float", "bool"} /\ x.v = 0

-----------------------------------------------------------------------------
(* POST /jobs: create_job and SchedulerService.create_job                  *)

\* CreatePayload keeping the num_wallets of the request
CreatePayload_Requested(job_request, max_wallet_count) ==
    [network |-> job_request.network,
     analysis_type |-> job_request.analysis_type,
     num_wallets |-> job_request.num_wallets,
     days_back |-> job_request.days_back]

\* the payload built by SchedulerService.create_job
CreatePayload(job_request, max_wallet_count) ==
    [network |-> job_request.network,
     analysis_type |-> job_request.analysis_type,
     num_wallets |-> max_wallet_count,
     days_back |-> job_request.days_back]

\* CreatedJob when client.create_job keeps nothing
CreatedJob_NotKept(job_request, max_wallet_count) == NoJob

\* the job handed to client.create_job; Cloud Scheduler enables a new job
CreatedJob(job_request, max_wallet_count) ==
    LET payload == CreatePayload(job_request, max_wallet_count)
    IN  Job(job_request.schedule, "ENABLED", payload.network,
            payload.analysis_type, payload.num_wallets, payload.days_back,
            IF job_request.description.text = "given"
            THEN job_request.description
            ELSE AutoDescription(max_wallet_count))

ReceiveCreate ==
    /\ CanReceive
    /\ \E id \in JobIds, jr \in JobRequests :
        req' = [Receive("create", id, "create_route_count")
                    EXCEPT !.job_request = jr, !.supplied = jr.num_wallets]
    /\ nreq' = nreq + 1
    /\ UNCHANGED <<mode, store>>
    /\ UNCHANGED rvars

\* wallet_count_data = await get_wallet_count(settings); in mock mode
\* SchedulerService.create_job returns True at once
CreateRouteCount ==
    /\ req.op = "create" /\ req.pc = "create_route_count"
    /\ \E o \in JobApiOutcomes :
        LET r == RouteGetWalletCount(o)
            r1 == [req EXCEPT !.actual_wallet_count = r.val.count,
                              !.wallet_source = r.val.source,
                              !.job_request.num_wallets = r.val.count]
        IN  req' = IF r.exc THEN Respond(req, 500)
                   ELSE IF mode = "mock"
                        THEN [Respond(r1, 200) EXCEPT !.success = TRUE]
                        ELSE [r1 EXCEPT !.pc = "create_service_count"]
    /\ UNCHANGED <<mode, store, nreq>>
    /\ UNCHANGED rvars

\* max_wallet_count = await self.get_wallet_count()
CreateServiceCount ==
    /\ req.op = "create" /\ req.pc = "create_service_count"
    /\ \E o \in JobApiOutcomes :
        req' = [req EXCEPT !.max_wallet_count = ServiceGetWalletCount(o).val,
                           !.pc = "create_store"]
    /\ UNCHANGED <<mode, store, nreq>>
    /\ UNCHANGED rvars

\* self.client.create_job: raises when the id is taken or the call fails
CreateStore ==
    /\ req.op = "create" /\ req.pc = "create_store"
    /\ \E fails \in BOOLEAN :
        IF fails \/ store[req.id].present
        THEN /\ req' = Respond(Called(req, "create_job", TRUE), 400)
             /\ store' = store
        ELSE /\ req' = [Respond(Called(req, "create_job", FALSE), 200)
                            EXCEPT !.success = TRUE]
             /\ store' = [store EXCEPT ![req.id] =
                            CreatedJob(req.job_request, req.max_wallet_count)]
    /\ UNCHANGED <<mode, nreq>>
    /\ UNCHANGED rvars

-----------------------------------------------------------------------------
(* PUT /jobs/{job_id}/schedule: update_job_schedule and                    *)
(* SchedulerService.update_job_schedule                                    *)

\* CronHasFiveParts accepting five parts or more
CronHasFiveParts_AtLeast(text) == Len(SplitWs(Strip(text))) >= 5

\* len(new_schedule.strip().split()) == 5
CronHasFiveParts(text) == Len(SplitWs(Strip(text))) = 5

\* UpdatedJob leaving the stored wallet count as it was
UpdatedJob_KeepsCount(current_job, new_schedule, max_wallet_count) ==
    [current_job EXCEPT !.schedule = new_schedule,
                        !.description = AutoDescription(max_wallet_count)]

\* the job sent to client.update_job
UpdatedJob(current_job, new_schedule, max_wallet_count) ==
    [current_job EXCEPT !.num_wallets = max_wallet_count,
                        !.schedule = new_schedule,
                        !.description = AutoDescription(max_wallet_count)]

ReceiveUpdateSchedule ==
    /\ CanReceive
    /\ \E id \in JobIds, sch \in ScheduleInputs :
        req' = [Receive("update_schedule", id, "upd_validate")
                    EXCEPT !.new_schedule = sch]
    /\ nreq' = nreq + 1
    /\ UNCHANGED <<mode, store>>
    /\ UNCHANGED rvars

\* the checks before the first await; .strip() of a non-string raises
UpdValidate ==
    /\ req.op = "update_schedule" /\ req.pc = "upd_validate"
    /\ req' = IF Falsy(req.new_schedule) THEN Respond(req, 400)
              ELSE IF req.new_schedule.t # "str" THEN Respond(req, 500)
              ELSE IF ~CronHasFiveParts(req.new_schedule.v) THEN Respond(req, 400)
              ELSE [req EXCEPT !.pc = "upd_find"]
    /\ UNCHANGED <<mode, store, nreq>>
    /\ UNCHANGED rvars

\* UpdFind resolving the wallet count before it looks the job up
UpdFind_ResolvesFirst ==
    /\ req.op = "update_schedule" /\ req.pc = "upd_find"
    /\ \E listFails \in BOOLEAN, o \in JobApiOutcomes :
        LET r0 == [req EXCEPT !.max_wallet_count = ServiceGetWalletCount(o).val]
            r == IF mode = "mock" THEN r0
                 ELSE Called(r0, "list_jobs", listFails)
        IN  req' = IF ~GetJob(req.id, listFails).present THEN Respond(r, 404)
                   ELSE IF mode = "mock"
                        THEN [Respond(r, 200) EXCEPT !.success = TRUE]
                        ELSE [r EXCEPT !.pc = "upd_get"]
    /\ UNCHANGED <<mode, store, nreq>>
    /\ UNCHANGED rvars

\* job = await scheduler_service.get_job(job_id); in mock mode
\* SchedulerService.update_job_schedule returns True at once
UpdFind ==
    /\ req.op = "update_schedule" /\ req.pc = "upd_find"
    /\ \E listFails \in BOOLEAN :
        LET r == IF mode = "mock" THEN req
                 ELSE Called(req, "list_jobs", listFails)
        IN  req' = IF ~GetJob(req.id, listFails).present THEN Respond(r, 404)
                   ELSE IF mode = "mock"
                        THEN [Respond(r, 200) EXCEPT !.success = TRUE]
                        ELSE [r EXCEPT !.pc = "upd_get"]
    /\ UNCHANGED <<mode, store, nreq>>
    /\ UNCHANGED rvars

\* current_job = self.client.get_job(...)
UpdGet ==
    /\ req.op = "update_schedule" /\ req.pc = "upd_get"
    /\ \E fails \in BOOLEAN :
        req' = IF fails \/ ~store[req.id].present
               THEN Respond(Called(req, "get_job", TRUE), 400)
               ELSE [Called(req, "get_job", FALSE)
                        EXCEPT !.current_job = store[req.id],
                               !.pc = "upd_service_count"]
    /\ UNCHANGED <<mode, store, nreq>>
    /\ UNCHANGED rvars

\* max_wallet_count = await self.get_wallet_count()
UpdServiceCount ==
    /\ req.op = "update_schedule" /\ req.pc = "upd_service_count"
    /\ \E o \in JobApiOutcomes :
        req' = [req EXCEPT !.max_wallet_count = ServiceGetWalletCount(o).val,
                           !.pc = "upd_store"]
    /\ UNCHANGED <<mode, store, nreq>>
    /\ UNCHANGED rvars

\* self.client.update_job: the state of a job is not writable
UpdStore ==
    /\ req.op = "update_schedule" /\ req.pc = "upd_store"
    /\ \E fails \in BOOLEAN :
        IF fails \/ ~store[req.id].present
        THEN /\ req' = Respond(Called(req, "update_job", TRUE), 400)
             /\ store' = store
        ELSE /\ req' = [Respond(Called(req, "update_job", FALSE), 200)
                            EXCEPT !.success = TRUE]
             /\ store' = [store EXCEPT ![req.id] =
                            [UpdatedJob(req.current_job, req.new_schedule.v,
                                        req.max_wallet_count)
                                EXCEPT !.state = store[req.id].state]]
    /\ UNCHANGED <<mode, nreq>>
    /\ UNCHANGED rvars

-----------------------------------------------------------------------------
(* POST /jobs/{job_id}/resume: resume_job and SchedulerService.resume_job  *)

\* in mock mode SchedulerService.resume_job returns True at once
ReceiveResume ==
    /\ CanReceive
    /\ \E id \in JobIds :
        req' = IF mode = "mock"
               THEN [Respond(Receive("resume", id, "done"), 200)
                        EXCEPT !.success = TRUE]
               ELSE Receive("resume", id, "res_get")
    /\ nreq' = nreq + 1
    /\ UNCHANGED <<mode, store>>
    /\ UNCHANGED rvars

ResumeAfter_EnableFirst(pc) ==
    CASE pc = "res_get" -> "res_service_count"
      [] pc = "res_service_count" -> "res_resume"
      [] pc = "res_resume" -> "res_update"
      [] pc = "res_update" -> "done"

\* the order of the calls in the try block of SchedulerService.resume_job
ResumeAfter(pc) ==
    CASE pc = "res_get" -> "res_service_count"
      [] pc = "res_service_count" -> "res_update"
      [] pc = "res_update" -> "res_resume"
      [] pc = "res_resume" -> "done"

\* the call returned: the next statement, or `return True`
ResumeStep(r) ==
    IF ResumeAfter(r.pc) = "done"
    THEN [Respond(r, 200) EXCEPT !.success = TRUE]
    ELSE [r EXCEPT !.pc = ResumeAfter(r.pc)]

\* current_job = self.client.get_job(...)
ResGet ==
    /\ req.op = "resume" /\ req.pc = "res_get"
    /\ \E fails \in BOOLEAN :
        req' = IF fails \/ ~store[req.id].present
               THEN Respond(Called(req, "get_job", TRUE), 400)
               ELSE ResumeStep([Called(req, "get_job", FALSE)
                                   EXCEPT !.current_job = store[req.id]])
    /\ UNCHANGED <<mode, store, nreq>>
    /\ UNCHANGED rvars

\* max_wallet_count = await self.get_wallet_count()
ResServiceCount ==
    /\ req.op = "resume" /\ req.pc = "res_service_count"
    /\ \E o \in JobApiOutcomes :
        req' = ResumeStep([req EXCEPT !.max_wallet_count =
                                          ServiceGetWalletCount(o).val])
    /\ UNCHANGED <<mode, store, nreq>>
    /\ UNCHANGED rvars

ResumedJob_KeepsCount(current_job, max_wallet_count) ==
    [current_job EXCEPT !.description = AutoDescription(max_wallet_count)]

\* the job object resume_job hands to update_job
ResumedJob(current_job, max_wallet_count) ==
    [current_job EXCEPT !.num_wallets = max_wallet_count,
                        !.description = AutoDescription(max_wallet_count)]

\* self.client.update_job(job=current_job): the state is not writable
ResUpdate ==
    /\ req.op = "resume" /\ req.pc = "res_update"
    /\ \E fails \in BOOLEAN :
        IF fails \/ ~store[req.id].present
        THEN /\ req' = Respond(Called(req, "update_job", TRUE), 400)
             /\ store' = store
        ELSE /\ req' = ResumeStep(Called(req, "update_job", FALSE))
             /\ store' = [store EXCEPT ![req.id] =
                            [ResumedJob(req.current_job, req.max_wallet_count)
                                EXCEPT !.state = store[req.id].state]]
    /\ UNCHANGED <<mode, nreq>>
    /\ UNCHANGED rvars

\* self.client.resume_job: a PAUSED job becomes ENABLED; on a job in
\* another state the call raises or returns the job as it is
ResResume ==
    /\ req.op = "resume" /\ req.pc = "res_resume"
    /\ \E fails \in BOOLEAN :
        IF fails \/ ~store[req.id].present
        THEN /\ req' = Respond(Called(req, "resume_job", TRUE), 400)
             /\ store' = store
        ELSE /\ req' = ResumeStep(Called(req, "resume_job", FALSE))
             /\ store' = [store EXCEPT ![req.id].state =
                            IF @ = "PAUSED" THEN "ENABLED" ELSE @]
    /\ UNCHANGED <<mode, nreq>>
    /\ UNCHANGED rvars

-----------------------------------------------------------------------------
(* POST /jobs/{job_id}/run: run_job_now and SchedulerService.run_job_now   *)

\* the optional request body: absent, or a JobExecutionRequest
NoExecutionRequest == [present |-> FALSE, num_wallets |-> IntV(0), days_back |-> 1]

ExecutionRequests ==
    { NoExecutionRequest,
      [present |-> TRUE, num_wallets |-> IntV(0), days_back |-> 1],
      [present |-> TRUE, num_wallets |-> IntV(3), days_back |-> 7] }

\* what the POST to settings.crypto_function_url can do: answer 200 with a
\* JSON object, answer 200 with a body that response.json() or result.get
\* rejects, answer another status, or raise (network error, 60 s timeout)
InvokeOutcomes == {"ok", "ok_unreadable", "http_error", "raised"}

ReceiveRunNow ==
    /\ CanReceive
    /\ \E id \in JobIds, er \in ExecutionRequests :
        req' = [Receive("run_now", id, "run_route_count")
                    EXCEPT !.supplied = er.num_wallets,
                           !.payload.days_back = er.days_back]
    /\ nreq' = nreq + 1
    /\ UNCHANGED <<mode, store>>
    /\ UNCHANGED rvars

\* wallet_count_data = await get_wallet_count(settings); in mock mode
\* SchedulerService.run_job_now returns True at once
RunRouteCount ==
    /\ req.op = "run_now" /\ req.pc = "run_route_count"
    /\ \E o \in JobApiOutcomes :
        LET r == RouteGetWalletCount(o)
            r1 == [req EXCEPT !.actual_wallet_count = r.val.count,
                              !.wallet_source = r.val.source]
        IN  req' = IF r.exc THEN Respond(req, 500)
                   ELSE IF mode = "mock"
                        THEN [r1 EXCEPT !.scheduler_success = TRUE,
                                        !.pc = "run_find"]
                        ELSE [r1 EXCEPT !.pc = "run_get"]
    /\ UNCHANGED <<mode, store, nreq>>
    /\ UNCHANGED rvars

\* `except Exception: return False` of SchedulerService.run_job_now
RunServiceFailed(r) == [r EXCEPT !.scheduler_success = FALSE, !.pc = "run_find"]

\* current_job = self.client.get_job(...)
RunGet ==
    /\ req.op = "run_now" /\ req.pc = "run_get"
    /\ \E fails \in BOOLEAN :
        req' = IF fails \/ ~store[req.id].present
               THEN RunServiceFailed(Called(req, "get_job", TRUE))
               ELSE [Called(req, "get_job", FALSE)
                        EXCEPT !.current_job = store[req.id],
                               !.pc = "run_service_count"]
    /\ UNCHANGED <<mode, store, nreq>>
    /\ UNCHANGED rvars

\* max_wallet_count = await self.get_wallet_count()
RunServiceCount ==
    /\ req.op = "run_now" /\ req.pc = "run_service_count"
    /\ \E o \in JobApiOutcomes :
        req' = [req EXCEPT !.max_wallet_count = ServiceGetWalletCount(o).val,
                           !.pc = "run_update"]
    /\ UNCHANGED <<mode, store, nreq>>
    /\ UNCHANGED rvars

\* self.client.update_job(job=current_job): only the body was changed
RunUpdate ==
    /\ req.op = "run_now" /\ req.pc = "run_update"
    /\ \E fails \in BOOLEAN :
        IF fails \/ ~store[req.id].present
        THEN /\ req' = RunServiceFailed(Called(req, "update_job", TRUE))
             /\ store' = store
        ELSE /\ req' = [Called(req, "update_job", FALSE)
                            EXCEPT !.pc = "run_trigger"]
             /\ store' = [store EXCEPT ![req.id] =
                            [req.current_job
                                EXCEPT !.num_wallets = req.max_wallet_count,
                                       !.state = store[req.id].state]]
    /\ UNCHANGED <<mode, nreq>>
    /\ UNCHANGED rvars

\* self.client.run_job(...), then `return True`
RunTrigger ==
    /\ req.op = "run_now" /\ req.pc = "run_trigger"
    /\ \E fails \in BOOLEAN :
        req' = IF fails \/ ~store[req.id].present
               THEN RunServiceFailed(Called(req, "run_job", TRUE))
               ELSE [Called(req, "run_job", FALSE)
                        EXCEPT !.scheduler_success = TRUE, !.pc = "run_find"]
    /\ UNCHANGED <<mode, store, nreq>>
    /\ UNCHANGED rvars

\* job = await scheduler_service.get_job(job_id); without a job the handler
\* returns {"success": scheduler_success, ...}
RunFind ==
    /\ req.op = "run_now" /\ req.pc = "run_find"
    /\ \E listFails \in BOOLEAN :
        LET r == IF mode = "mock" THEN req
                 ELSE Called(req, "list_jobs", listFails)
            job == GetJob(req.id, listFails)
        IN  req' = IF ~job.present
                   THEN [Respond(r, 200) EXCEPT !.success = r.scheduler_success]
                   ELSE [r EXCEPT !.pc = "run_invoke",
                                  !.payload =
                                     [network |-> job.network,
                                      analysis_type |-> job.analysis_type,
                                      num_wallets |-> r.actual_wallet_count,
                                      days_back |-> r.payload.days_back]]
    /\ UNCHANGED <<mode, store, nreq>>
    /\ UNCHANGED rvars

RunResult_DirectOnly(invoke, scheduler_success) == invoke = "ok"

\* the "success" field after the direct POST
RunResult(invoke, scheduler_success) ==
    IF invoke = "ok" THEN TRUE ELSE scheduler_success

\* response = await client.post(settings.crypto_function_url, json=payload)
RunInvoke ==
    /\ req.op = "run_now" /\ req.pc = "run_invoke"
    /\ \E out \in InvokeOutcomes :
        req' = [Respond(req, 200)
                    EXCEPT !.invoke = out,
                           !.success = RunResult(out, req.scheduler_success)]
    /\ UNCHANGED <<mode, store, nreq>>
    /\ UNCHANGED rvars

-----------------------------------------------------------------------------
(* GET /jobs/{job_id}, POST /jobs/{job_id}/pause, DELETE /jobs/{job_id}    *)

ReceiveGet ==
    /\ CanReceive
    /\ \E id \in JobIds :
        req' = Receive("get", id, "get_find")
    /\ nreq' = nreq + 1
    /\ UNCHANGED <<mode, store>>
    /\ UNCHANGED rvars

\* job = await scheduler_service.get_job(job_id)
GetFind ==
    /\ req.op = "get" /\ req.pc = "get_find"
    /\ \E listFails \in BOOLEAN :
        LET r == IF mode = "mock" THEN req
                 ELSE Called(req, "list_jobs", listFails)
        IN  req' = IF ~GetJob(req.id, listFails).present THEN Respond(r, 404)
                   ELSE [Respond(r, 200) EXCEPT !.success = TRUE]
    /\ UNCHANGED <<mode, store, nreq>>
    /\ UNCHANGED rvars

\* in mock mode SchedulerService.pause_job returns True at once
ReceivePause ==
    /\ CanReceive
    /\ \E id \in JobIds :
        req' = IF mode = "mock"
               THEN [Respond(Receive("pause", id, "done"), 200)
                        EXCEPT !.success = TRUE]
               ELSE Receive("pause", id, "pause_call")
    /\ nreq' = nreq + 1
    /\ UNCHANGED <<mode, store>>
    /\ UNCHANGED rvars

\* self.client.pause_job: an ENABLED job becomes PAUSED; on a job in another
\* state the call raises or returns the job as it is
PauseCall ==
    /\ req.op = "pause" /\ req.pc = "pause_call"
    /\ \E fails \in BOOLEAN :
        IF fails \/ ~store[req.id].present
        THEN /\ req' = Respond(Called(req, "pause_job", TRUE), 400)
             /\ store' = store
        ELSE /\ req' = [Respond(Called(req, "pause_job", FALSE), 200)
                            EXCEPT !.success = TRUE]
             /\ store' = [store EXCEPT ![req.id].state =
                            IF @ = "ENABLED" THEN "PAUSED" ELSE @]
    /\ UNCHANGED <<mode, nreq>>
    /\ UNCHANGED rvars

\* in mock mode SchedulerService.delete_job returns True at once
ReceiveDelete ==
    /\ CanReceive
    /\ \E id \in JobIds :
        req' = IF mode = "mock"
               THEN [Respond(Receive("delete", id, "done"), 200)
                        EXCEPT !.success = TRUE]
               ELSE Receive("delete", id, "delete_call")
    /\ nreq' = nreq + 1
    /\ UNCHANGED <<mode, store>>
    /\ UNCHANGED rvars

\* self.client.delete_job
DeleteCall ==
    /\ req.op = "delete" /\ req.pc = "delete_call"
    /\ \E fails \in BOOLEAN :
        IF fails \/ ~store[req.id].present
        THEN /\ req' = Respond(Called(req, "delete_job", TRUE), 400)
             /\ store' = store
        ELSE /\ req' = [Respond(Called(req, "delete_job", FALSE), 200)
                            EXCEPT !.success = TRUE]
             /\ store' = [store EXCEPT ![req.id] = NoJob]
    /\ UNCHANGED <<mode, nreq>>
    /\ UNCHANGED rvars

-----------------------------------------------------------------------------
(* POST /jobs/update-wallet-counts: update_all_jobs_wallet_counts and      *)
(* SchedulerService.update_all_jobs_wallet_count                           *)

\* the order in which client.list_jobs yields the jobs
JobOrder ==
    << "crypto-buy-analysis-ethereum", "crypto-sell-analysis-ethereum",
       "crypto-buy-analysis-base" >>

IsPresent(id) == store[id].present

ReceiveRefreshAll ==
    /\ CanReceive
    /\ req' = Receive("refresh_all", Idle.id, "ref_route_count")
    /\ nreq' = nreq + 1
    /\ UNCHANGED <<mode, store>>
    /\ UNCHANGED rvars

\* wallet_count_data = await get_wallet_count(settings); in mock mode
\* SchedulerService.update_all_jobs_wallet_count returns 0 at once
RefRouteCount ==
    /\ req.op = "refresh_all" /\ req.pc = "ref_route_count"
    /\ \E o \in JobApiOutcomes :
        LET r == RouteGetWalletCount(o)
            r1 == [req EXCEPT !.actual_wallet_count = r.val.count,
                              !.wallet_source = r.val.source]
        IN  req' = IF r.exc THEN Respond(req, 500)
                   ELSE IF mode = "mock"
                        THEN [Respond(r1, 200) EXCEPT !.success = TRUE]
                        ELSE [r1 EXCEPT !.pc = "ref_service_count"]
    /\ UNCHANGED <<mode, store, nreq>>
    /\ UNCHANGED rvars

\* max_wallet_count = await self.get_wallet_count()
RefServiceCount ==
    /\ req.op = "refresh_all" /\ req.pc = "ref_service_count"
    /\ \E o \in JobApiOutcomes :
        req' = [req EXCEPT !.max_wallet_count = ServiceGetWalletCount(o).val,
                           !.pc = "ref_list"]
    /\ UNCHANGED <<mode, store, nreq>>
    /\ UNCHANGED rvars

\* the handler returns {"success": True, "jobs_updated": updated_count, ...}
RefReturn(r, updated_count) ==
    [Respond(r, 200) EXCEPT !.success = TRUE, !.updated_count = updated_count]

\* for job in self.client.list_jobs(...): a failure of the listing ends in
\* the outer `except Exception: return 0`
RefList ==
    /\ req.op = "refresh_all" /\ req.pc = "ref_list"
    /\ \E fails \in BOOLEAN :
        LET r == Called(req, "list_jobs", fails)
            todo == SelectSeq(JobOrder, IsPresent)
        IN  req' = IF fails THEN RefReturn(r, 0)
                   ELSE IF todo = << >> THEN RefReturn(r, r.updated_count)
                   ELSE [r EXCEPT !.todo = todo, !.pc = "ref_job"]
    /\ UNCHANGED <<mode, store, nreq>>
    /\ UNCHANGED rvars

NeedsRewrite_Always(current_wallets, max_wallet_count) == TRUE

\* if current_wallets != max_wallet_count
NeedsRewrite(current_wallets, max_wallet_count) ==
    current_wallets # max_wallet_count

\* the loop moves on to the next job, or the method returns updated_count
RefAdvance(r) ==
    IF Len(r.todo) = 1 THEN RefReturn([r EXCEPT !.todo = << >>], r.updated_count)
    ELSE [r EXCEPT !.todo = Tail(@)]

RefAfterFailure_Stops(r) == RefReturn([r EXCEPT !.todo = << >>], r.updated_count)

\* except Exception as job_error: the failure is logged, the loop goes on
RefAfterFailure(r) == RefAdvance(r)

\* one pass of the loop body: a job at the resolved count is skipped; a
\* failed self.client.update_job is logged and the job is not counted
RefJob ==
    /\ req.op = "refresh_all" /\ req.pc = "ref_job"
    /\ LET id == Head(req.todo)
           job == store[id]
       IN  IF ~NeedsRewrite(job.num_wallets, req.max_wallet_count)
           THEN /\ req' = RefAdvance(req)
                /\ store' = store
           ELSE \E fails \in BOOLEAN :
                  IF fails
                  THEN /\ req' = RefAfterFailure(Called(req, "update_job", TRUE))
                       /\ store' = store
                  ELSE /\ req' = RefAdvance(
                                    [Called(req, "update_job", FALSE)
                                        EXCEPT !.updated_count = @ + 1,
                                               !.rewritten = @ \cup {id}])
                       /\ store' = [store EXCEPT ![id] =
                                      ResumedJob(job, req.max_wallet_count)]
    /\ UNCHANGED <<mode, nreq>>
    /\ UNCHANGED rvars

-----------------------------------------------------------------------------
(* POST /jobs/pause-all and POST /jobs/resume-all                          *)

\* the ids of the jobs a listing returned, in the order of the listing
Listed(jobs) ==
    LET Has(id) == jobs[id].present
    IN  SelectSeq(JobOrder, Has)

ReceivePauseAll ==
    /\ CanReceive
    /\ req' = Receive("pause_all", Idle.id, "pall_list")
    /\ nreq' = nreq + 1
    /\ UNCHANGED <<mode, store>>
    /\ UNCHANGED rvars

ReceiveResumeAll ==
    /\ CanReceive
    /\ req' = Receive("resume_all", Idle.id, "rall_list")
    /\ nreq' = nreq + 1
    /\ UNCHANGED <<mode, store>>
    /\ UNCHANGED rvars

\* the handler returns {"success": True, "message": ..., "results": results}
AllReturn(r) == [Respond(r, 200) EXCEPT !.success = TRUE, !.todo = << >>]

\* jobs = await scheduler_service.list_jobs(): the jobs as listed are kept
\* in current_job while the loop visits them
AllList(r, listFails, pc) ==
    LET jobs == ListJobs(listFails)
        r1 == IF mode = "mock" THEN r ELSE Called(r, "list_jobs", listFails)
    IN  IF Listed(jobs) = << >> THEN AllReturn(r1)
        ELSE [r1 EXCEPT !.todo = Listed(jobs), !.pc = pc,
                        !.id = Head(Listed(jobs)),
                        !.current_job = jobs[Head(Listed(jobs))]]

PallList ==
    /\ req.op = "pause_all" /\ req.pc = "pall_list"
    /\ \E listFails \in BOOLEAN :
        req' = AllList(req, listFails, "pall_job")
    /\ UNCHANGED <<mode, store, nreq>>
    /\ UNCHANGED rvars

RallList ==
    /\ req.op = "resume_all" /\ req.pc = "rall_list"
    /\ \E listFails \in BOOLEAN :
        req' = AllList(req, listFails, "rall_job")
    /\ UNCHANGED <<mode, store, nreq>>
    /\ UNCHANGED rvars

\* the loop moves on to the next listed job, or the handler returns
AllAdvance(r, pc) ==
    IF Len(r.todo) = 1 THEN AllReturn(r)
    ELSE [r EXCEPT !.todo = Tail(@), !.pc = pc,
                   !.id = r.todo[2],
                   !.current_job = ListJobs(FALSE)[r.todo[2]]]

\* results.append({"job_id": job.id, "success": success})
Appended(r, success) ==
    [r EXCEPT !.total = @ + 1,
              !.attempted = @ \cup {r.id},
              !.succeeded = IF success THEN @ \cup {r.id} ELSE @]

ShouldPause_NotPaused(job) == job.state # "PAUSED"

\* if job.state.value == "ENABLED"
ShouldPause(job) == job.state = "ENABLED"

\* if job.state.value == "PAUSED"
ShouldResume(job) == job.state = "PAUSED"

\* one pass of the loop of pause_all_jobs: SchedulerService.pause_job on an
\* ENABLED job (True at once in mock mode)
PallJob ==
    /\ req.op = "pause_all" /\ req.pc = "pall_job"
    /\ IF ~ShouldPause(req.current_job)
       THEN /\ req' = AllAdvance(req, "pall_job")
            /\ store' = store
       ELSE IF mode = "mock"
       THEN /\ req' = AllAdvance(Appended(req, TRUE), "pall_job")
            /\ store' = store
       ELSE \E fails \in BOOLEAN :
              IF fails \/ ~store[req.id].present
              THEN /\ req' = AllAdvance(
                                Appended(Called(req, "pause_job", TRUE), FALSE),
                                "pall_job")
                   /\ store' = store
              ELSE /\ req' = AllAdvance(
                                Appended(Called(req, "pause_job", FALSE), TRUE),
                                "pall_job")
                   /\ store' = [store EXCEPT ![req.id].state =
                                  IF @ = "ENABLED" THEN "PAUSED" ELSE @]
    /\ UNCHANGED <<mode, nreq>>
    /\ UNCHANGED rvars

\* one pass of the loop of resume_all_jobs up to the first call of
\* SchedulerService.resume_job (True at once in mock mode)
RallJob ==
    /\ req.op = "resume_all" /\ req.pc = "rall_job"
    /\ req' = IF ~ShouldResume(req.current_job) THEN AllAdvance(req, "rall_job")
              ELSE IF mode = "mock"
                   THEN AllAdvance(Appended(req, TRUE), "rall_job")
                   ELSE [req EXCEPT !.pc = "rall_get"]
    /\ UNCHANGED <<mode, store, nreq>>
    /\ UNCHANGED rvars

\* SchedulerService.resume_job returned False to the loop
RallFailed(r, call) ==
    AllAdvance(Appended(Called(r, call, TRUE), FALSE), "rall_job")

\* current_job = self.client.get_job(...)
RallGet ==
    /\ req.op = "resume_all" /\ req.pc = "rall_get"
    /\ \E fails \in BOOLEAN :
        req' = IF fails \/ ~store[req.id].present
               THEN RallFailed(req, "get_job")
               ELSE [Called(req, "get_job", FALSE)
                        EXCEPT !.current_job = store[req.id],
                               !.pc = "rall_service_count"]
    /\ UNCHANGED <<mode, store, nreq>>
    /\ UNCHANGED rvars

\* max_wallet_count = await self.get_wallet_count()
RallServiceCount ==
    /\ req.op = "resume_all" /\ req.pc = "rall_service_count"
    /\ \E o \in JobApiOutcomes :
        req' = [req EXCEPT !.max_wallet_count = ServiceGetWalletCount(o).val,
                           !.pc = "rall_update"]
    /\ UNCHANGED <<mode, store, nreq>>
    /\ UNCHANGED rvars

\* self.client.update_job(job=current_job)
RallUpdate ==
    /\ req.op = "resume_all" /\ req.pc = "rall_update"
    /\ \E fails \in BOOLEAN :
        IF fails \/ ~store[req.id].present
        THEN /\ req' = RallFailed(req, "update_job")
             /\ store' = store
        ELSE /\ req' = [Called(req, "update_job", FALSE)
                            EXCEPT !.pc = "rall_resume"]
             /\ store' = [store EXCEPT ![req.id] =
                            [ResumedJob(req.current_job, req.max_wallet_count)
                                EXCEPT !.state = store[req.id].state]]
    /\ UNCHANGED <<mode, nreq>>
    /\ UNCHANGED rvars

\* self.client.resume_job(...), then `return True`
RallResume ==
    /\ req.op = "resume_all" /\ req.pc = "rall_resume"
    /\ \E fails \in BOOLEAN :
        IF fails \/ ~store[req.id].present
        THEN /\ req' = RallFailed(req, "resume_job")
             /\ store' = store
        ELSE /\ req' = AllAdvance(
                          Appended(Called(req, "resume_job", FALSE), TRUE),
                          "rall_job")
             /\ store' = [store EXCEPT ![req.id].state =
                            IF @ = "PAUSED" THEN "ENABLED" ELSE @]
    /\ UNCHANGED <<mode, nreq>>
    /\ UNCHANGED rvars

-----------------------------------------------------------------------------
(* Resolutions over time.  Neither resolver is wrapped by cached(): a      *)
(* resolution reads and writes no cache entry.                             *)

NoCall == [who |-> "none", outcome |-> NetError, exc |-> FALSE, count |-> None,
           source |-> "none", gets |-> 0, at |-> 0]

NoPrev == [called |-> FALSE, who |-> "none", at |-> 0, gets |-> 0,
           live |-> FALSE, fellBack |-> FALSE]

Summary(c) ==
    [called |-> c.who # "none", who |-> c.who, at |-> c.at, gets |-> c.gets,
     live |-> c.source = "wallet-api" /\ c.count # IntV(Fallback),
     fellBack |-> c.who # "none" /\ c.count = IntV(Fallback)]

CacheKeys == {"get_wallet_count"}

NoEntry == [present |-> FALSE, val |-> None, exp |-> 0]

EmptyCache == [k \in CacheKeys |-> NoEntry]

\* the callers of a function wrapped by cached()
Tasks == {1, 2}

\* one call of async_wrapper: where it is, what func returned, what the
\* wrapper returned, how often it called func
NoTask == [pc |-> "idle", result |-> None, ret |-> None, invoked |-> 0]

\* no wrapped call made, no cache call made
NoWrap ==
    [backend |-> "absent", task |-> [t \in Tasks |-> NoTask], log |-> {},
     rounds |-> 0]

\* RouteWalletCountCall serving the previous result, whatever its age
RouteWalletCountCall_Stale ==
    \E o \in ApiOutcomes :
        LET r == RouteGetWalletCount(o)
            hit == last.who = "route"
        IN  /\ last' = IF hit THEN [last EXCEPT !.gets = 0, !.at = now]
                        ELSE [who |-> "route", outcome |-> o, exc |-> r.exc,
                              count |-> r.val.count, source |-> r.val.source,
                              gets |-> r.gets, at |-> now]
            /\ prev' = Summary(last)
            /\ UNCHANGED <<now, cache, wrap>>
            /\ UNCHANGED jvars

\* the GET /wallets/count route
RouteWalletCountCall ==
    \E o \in ApiOutcomes :
        LET r == RouteGetWalletCount(o)
        IN  /\ last' = [who |-> "route", outcome |-> o, exc |-> r.exc,
                        count |-> r.val.count, source |-> r.val.source,
                        gets |-> r.gets, at |-> now]
            /\ prev' = Summary(last)
            /\ UNCHANGED <<now, cache, wrap>>
            /\ UNCHANGED jvars

\* ServiceWalletCountCall storing every result under the resolver's key
ServiceWalletCountCall_Cached ==
    \E o \in ApiOutcomes :
        LET r == ServiceGetWalletCount(o)
            live == o.kind = "http" /\ o.status = 200
        IN  /\ last' = [who |-> "service", outcome |-> o, exc |-> r.exc,
                        count |-> r.val,
                        source |-> IF live THEN "wallet-api" ELSE "fallback",
                        gets |-> r.gets, at |-> now]
            /\ prev' = Summary(last)
            /\ cache' = [cache EXCEPT !["get_wallet_count"] =
                            [present |-> TRUE, val |-> r.val, exp |-> now + Ttl]]
            /\ UNCHANGED <<now, wrap>>
            /\ UNCHANGED jvars

\* a call of SchedulerService.get_wallet_count
ServiceWalletCountCall ==
    \E o \in ApiOutcomes :
        LET r == ServiceGetWalletCount(o)
            live == o.kind = "http" /\ o.status = 200
        IN  /\ last' = [who |-> "service", outcome |-> o, exc |-> r.exc,
                        count |-> r.val,
                        source |-> IF live THEN "wallet-api" ELSE "fallback",
                        gets |-> r.gets, at |-> now]
            /\ prev' = Summary(last)
            /\ UNCHANGED <<now, cache, wrap>>
            /\ UNCHANGED jvars

Tick ==
    /\ now + TickStep <= MaxTime
    /\ now' = now + TickStep
    /\ UNCHANGED <<cache, last, prev, wrap>>
    /\ UNCHANGED jvars

ResolveInit ==
    /\ now = 0
    /\ cache = EmptyCache
    /\ last = NoCall
    /\ prev = NoPrev
    /\ wrap = NoWrap
    /\ mode = "live"
    /\ store = EmptyStore
    /\ req = Idle
    /\ nreq = 0

ResolveNext == RouteWalletCountCall \/ ServiceWalletCountCall \/ Tick

SpecResolve == ResolveInit /\ [][ResolveNext]_vars

-----------------------------------------------------------------------------
(* CacheService and the cached() decorator around an async function, called *)
(* by two tasks of the event loop.  Nothing in the application is wrapped   *)
(* by cached(); this part describes the decorator and the service alone.    *)

CacheKey == CHOOSE k \in CacheKeys : TRUE

\* what the wrapped function can return
FuncResults == {IntV(5), IntV(7), None}

\* the unexpired entry Redis holds under the key
LiveEntry == cache[CacheKey].present /\ now < cache[CacheKey].exp

\* the try block of CacheService.get: redis_client.get, json.loads
CacheGetTry(fails) ==
    IF fails THEN Raise
    ELSE IF LiveEntry THEN Ret(cache[CacheKey].val)
    ELSE Ret(None)

\* CacheService.get without its except clause
CacheGet_NoExcept(fails) ==
    IF wrap.backend = "absent" THEN Ret(None) ELSE CacheGetTry(fails)

\* CacheService.get: [exc, val]
CacheGet(fails) ==
    IF wrap.backend = "absent" THEN Ret(None)
    ELSE IF CacheGetTry(fails).exc THEN Ret(None)
    ELSE CacheGetTry(fails)

\* CacheService.set(key, value, ttl): [exc, val, cache]
CacheSet(fails, value) ==
    IF wrap.backend = "absent" \/ fails
    THEN [exc |-> FALSE, val |-> BoolV(FALSE), cache |-> cache]
    ELSE [exc |-> FALSE, val |-> BoolV(TRUE),
          cache |-> [cache EXCEPT ![CacheKey] =
                        [present |-> TRUE, val |-> value, exp |-> now + Ttl]]]

\* CacheService.delete(key): [exc, val, cache]
CacheDelete(fails) ==
    IF wrap.backend = "absent" \/ fails
    THEN [exc |-> FALSE, val |-> BoolV(FALSE), cache |-> cache]
    ELSE [exc |-> FALSE, val |-> BoolV(TRUE),
          cache |-> [cache EXCEPT ![CacheKey] = NoEntry]]

\* CacheService.clear_pattern(pattern): keys(pattern), then delete(*keys)
\* when there are keys; matches: the pattern matches the key
CacheClearPattern(matches, keysFails, deleteFails) ==
    IF wrap.backend = "absent" \/ keysFails \/ ~(matches /\ LiveEntry)
            \/ deleteFails
    THEN [exc |-> FALSE, val |-> IntV(0), cache |-> cache]
    ELSE [exc |-> FALSE, val |-> IntV(1),
          cache |-> [cache EXCEPT ![CacheKey] = NoEntry]]

\* a call of a CacheService method and what it returned; down: there was no
\* redis_client, or the Redis call raised
Logged(w, op, fails, result) ==
    [w EXCEPT !.log = @ \cup {[op |-> op,
                               down |-> (w.backend = "absent" \/ fails),
                               result |-> result]}]

\* async_wrapper up to `await func(...)`: cache.get, return on a hit
WrapEnter(t) ==
    /\ wrap.task[t].pc # "awaiting"
    /\ wrap.rounds < MaxRounds
    /\ \E fails \in BOOLEAN :
        LET g == CacheGet(fails)
            w == Logged(wrap, "get", fails, g.val)
        IN  wrap' = [w EXCEPT
                !.rounds = @ + 1,
                !.task[t] =
                    IF g.exc THEN [NoTask EXCEPT !.pc = "raised"]
                    ELSE IF g.val # None
                         THEN [NoTask EXCEPT !.pc = "done", !.ret = g.val]
                         ELSE [NoTask EXCEPT !.pc = "awaiting", !.invoked = 1]]
    /\ UNCHANGED <<now, cache, last, prev>>
    /\ UNCHANGED jvars

\* func returns; cache.set(cache_key, result, ttl); return result
WrapResume(t) ==
    /\ wrap.task[t].pc = "awaiting"
    /\ \E v \in FuncResults, fails \in BOOLEAN :
        LET st == CacheSet(fails, v)
            w == Logged(wrap, "set", fails, st.val)
        IN  /\ wrap' = [w EXCEPT
                    !.task[t] =
                        IF st.exc THEN [@ EXCEPT !.pc = "raised", !.result = v]
                        ELSE [@ EXCEPT !.pc = "done", !.result = v, !.ret = v]]
            /\ cache' = st.cache
    /\ UNCHANGED <<now, last, prev>>
    /\ UNCHANGED jvars

\* cache.delete(cache_key)
CacheDeleteCall ==
    /\ \E fails \in BOOLEAN :
        LET r == CacheDelete(fails)
        IN  /\ wrap' = Logged(wrap, "delete", fails, r.val)
            /\ cache' = r.cache
    /\ UNCHANGED <<now, last, prev>>
    /\ UNCHANGED jvars

\* cache.clear_pattern(pattern)
CacheClearPatternCall ==
    /\ \E matches \in BOOLEAN, keysFails \in BOOLEAN, deleteFails \in BOOLEAN :
        LET r == CacheClearPattern(matches, keysFails, deleteFails)
        IN  /\ wrap' = Logged(wrap, "clear_pattern",
                              keysFails \/ (matches /\ LiveEntry /\ deleteFails),
                              r.val)
            /\ cache' = r.cache
    /\ UNCHANGED <<now, last, prev>>
    /\ UNCHANGED jvars

\* CacheService._setup_redis leaves redis_client None or connected
CachedInit ==
    /\ now = 0
    /\ cache = EmptyCache
    /\ last = NoCall
    /\ prev = NoPrev
    /\ wrap \in { [NoWrap EXCEPT !.backend = b] : b \in {"absent", "present"} }
    /\ mode = "live"
    /\ store = EmptyStore
    /\ req = Idle
    /\ nreq = 0

CachedNext ==
    \/ \E t \in Tasks : WrapEnter(t)
    \/ \E t \in Tasks : WrapResume(t)
    \/ CacheDeleteCall
    \/ CacheClearPatternCall
    \/ Tick

SpecCached == CachedInit /\ [][CachedNext]_vars

-----------------------------------------------------------------------------
(* The service handling job requests, one at a time *)

Init ==
    /\ now = 0
    /\ cache = EmptyCache
    /\ last = NoCall
    /\ prev = NoPrev
    /\ wrap = NoWrap
    /\ mode \in {"live", "mock"}
    /\ store \in (IF mode = "live" THEN InitStores ELSE {EmptyStore})
    /\ req = Idle
    /\ nreq = 0

Next ==
    \/ ReceiveCreate
    \/ CreateRouteCount
    \/ CreateServiceCount
    \/ CreateStore
    \/ ReceiveUpdateSchedule
    \/ UpdValidate
    \/ UpdFind
    \/ UpdGet
    \/ UpdServiceCount
    \/ UpdStore
    \/ ReceiveResume
    \/ ResGet
    \/ ResServiceCount
    \/ ResUpdate
    \/ ResResume
    \/ ReceiveRunNow
    \/ RunRouteCount
    \/ RunGet
    \/ RunServiceCount
    \/ RunUpdate
    \/ RunTrigger
    \/ RunFind
    \/ RunInvoke
    \/ ReceiveGet
    \/ GetFind
    \/ ReceivePause
    \/ PauseCall
    \/ ReceiveDelete
    \/ DeleteCall
    \/ ReceiveRefreshAll
    \/ RefRouteCount
    \/ RefServiceCount
    \/ RefList
    \/ RefJob
    \/ ReceivePauseAll
    \/ PallList
    \/ PallJob
    \/ ReceiveResumeAll
    \/ RallList
    \/ RallJob
    \/ RallGet
    \/ RallServiceCount
    \/ RallUpdate
    \/ RallResume

Spec == Init /\ [][Next]_vars

-----------------------------------------------------------------------------
(* Properties of the resolvers *)

Resolved == last.who # "none"

Is200 == Resolved /\ last.outcome.kind = "http" /\ last.outcome.status = 200

\* C1: for an HTTP 200 body {"count": N}, {"x": N}, N or "N" the resolver
\* returns exactly N, and an object holding `count` next to other fields
\* yields the value of `count`.
C1_SupportedShapes ==
    Is200 =>
        \A n \in Ns :
            LET b == last.outcome.body
            IN  /\ b \in { ObjV(<< <<"count", IntV(n)>> >>), ObjV(<< <<"x", IntV(n)>> >>),
                           IntV(n), StrV(ToDigits(n)) } => last.count = IntV(n)
                /\ (IsDict(b) /\ HasKey(b, "count") /\ DictGet(b, "count") = IntV(n))
                        => last.count = IntV(n)

C1_Witness ==
    /\ Is200
    /\ last.outcome.body = ObjV(<< <<"x", IntV(6)>>, <<"count", IntV(5)>> >>)
    /\ last.count = IntV(5)

C3_FailureGivesFallbackOnce ==
    (Resolved /\ ~Is200) =>
        /\ last.count = IntV(Fallback)
        /\ ~last.exc
        /\ last.gets = 1

C3_Witness ==
    /\ Resolved
    /\ last.outcome = NetError
    /\ last.count = IntV(Fallback)
    /\ last.gets = 1

\* C4: the resolved count is always a non-null integer >= 0.
C4_CountIsNonNegativeInteger ==
    Resolved => (last.count.t = "int" /\ last.count.v >= 0)

\* C6: two resolutions by the same resolver within the TTL window, the first
\* of them a successful live one, issue exactly one GET in total.
C6_SecondCallServedFromCache ==
    (prev.called /\ prev.live /\ last.who = prev.who /\ last.at < prev.at + Ttl)
        => prev.gets + last.gets = 1

\* C7: a resolution made once the TTL since the previous one has expired
\* issues a new GET.
C7_FetchAfterExpiry ==
    (prev.called /\ last.at >= prev.at + Ttl) => last.gets = 1

C7_Witness ==
    /\ prev.called
    /\ prev.live
    /\ last.who = prev.who
    /\ last.at >= prev.at + Ttl
    /\ last.gets = 1

IsResolution == last' # last \/ prev' # prev

\* C8: a resolution ending in the fallback constant writes nothing to the
\* cache and the resolution after it fetches again; a cache write happens
\* only in a successful live resolution.
C8_FallbackNotCached ==
    /\ [][(IsResolution /\ last'.count = IntV(Fallback)) => cache' = cache]_vars
    /\ [][cache' # cache =>
            (IsResolution /\ last'.source = "wallet-api"
                /\ last'.count # IntV(Fallback))]_vars
    /\ []((prev.called /\ prev.fellBack) => last.gets = 1)

C8_Witness ==
    /\ prev.called
    /\ prev.fellBack
    /\ last.gets = 1
    /\ cache = EmptyCache

-----------------------------------------------------------------------------
(* Properties of the job operations *)

Done(op) == req.op = op /\ req.pc = "done"

\* C5: a create that succeeds against the live JobStore stores a job whose
\* num_wallets is the count resolved by SchedulerService.create_job in that
\* call, whatever num_wallets the request supplied.
C5_CreateStoresResolvedCount ==
    (Done("create") /\ mode = "live" /\ req.status = 200) =>
        /\ store[req.id].present
        /\ store[req.id].num_wallets = req.max_wallet_count

C5_Witness ==
    /\ Done("create") /\ mode = "live" /\ req.status = 200
    /\ req.supplied = IntV(3)
    /\ req.actual_wallet_count = IntV(5)
    /\ req.max_wallet_count = IntV(7)
    /\ store[req.id].num_wallets = IntV(7)

\* number of whitespace-separated tokens: the positions where a token starts
TokenCount(text) ==
    Cardinality({ i \in 1..Len(text) :
                    ~IsSpace(text[i]) /\ (i = 1 \/ IsSpace(text[i - 1])) })

\* C9: update_schedule succeeds only for a cron string of exactly 5
\* whitespace-separated tokens; a string of another token count and an empty
\* or missing schedule are rejected with a client error.
C9_UpdateScheduleNeedsFiveTokens ==
    Done("update_schedule") =>
        /\ req.status = 200 =>
                (req.new_schedule.t = "str" /\ TokenCount(req.new_schedule.v) = 5)
        /\ (req.new_schedule = None
                \/ (req.new_schedule.t = "str" /\ TokenCount(req.new_schedule.v) # 5))
                => req.status = 400

C9_Witness ==
    /\ Done("update_schedule")
    /\ req.new_schedule = StrV(FourFields)
    /\ req.status = 400

\* the jobs a caller sees
Jobs == ListJobs(FALSE)

\* C10: a successful update_schedule(id, cron) leaves the job with schedule
\* cron and num_wallets equal to the count resolved in that call, its
\* network, analysis_type and days_back unchanged.
C10_UpdateScheduleStampsJob ==
    (Done("update_schedule") /\ req.status = 200) =>
        /\ Jobs[req.id].present
        /\ Jobs[req.id].schedule = req.new_schedule.v
        /\ Jobs[req.id].num_wallets = req.max_wallet_count
        /\ Jobs[req.id].network = req.pre[req.id].network
        /\ Jobs[req.id].analysis_type = req.pre[req.id].analysis_type
        /\ Jobs[req.id].days_back = req.pre[req.id].days_back

\* C10 (amended): against the live JobStore a successful update_schedule(id,
\* cron) leaves the job with schedule cron and num_wallets equal to the count
\* resolved in that call, whatever it held before, its network,
\* analysis_type and days_back unchanged.
C10_LiveUpdateScheduleStampsJob ==
    (Done("update_schedule") /\ req.status = 200 /\ mode = "live") =>
        /\ req.pre[req.id].present
        /\ store[req.id].present
        /\ store[req.id].schedule = req.new_schedule.v
        /\ store[req.id].num_wallets = req.max_wallet_count
        /\ store[req.id].network = req.pre[req.id].network
        /\ store[req.id].analysis_type = req.pre[req.id].analysis_type
        /\ store[req.id].days_back = req.pre[req.id].days_back

C10_Witness ==
    /\ Done("update_schedule") /\ req.status = 200 /\ mode = "live"
    /\ req.id = "crypto-sell-analysis-ethereum"
    /\ req.new_schedule = StrV(Quarterly)
    /\ req.pre[req.id].num_wallets = IntV(7)
    /\ req.max_wallet_count = IntV(5)
    /\ store[req.id].num_wallets = IntV(5)
    /\ store[req.id].days_back = 7


-----------------------------------------------------------------------------
(* Properties of resume, run_now and refresh_all *)

\* C11: while a resume is in progress or has returned, a job that this
\* resume turned from PAUSED to ENABLED already carries the num_wallets (and
\* the description saying so) that this resume resolved and wrote
C11_ResumeWritesCountBeforeEnabling ==
    (req.op = "resume" /\ store[req.id].present
        /\ req.pre[req.id].state = "PAUSED"
        /\ store[req.id].state = "ENABLED")
    => /\ req.calls["update_job"] = 1
       /\ req.max_wallet_count # None
       /\ store[req.id].num_wallets = req.max_wallet_count
       /\ store[req.id].description = AutoDescription(req.max_wallet_count)

\* a resume of the paused seed job that replaced its count 7 by 5
C11_Witness ==
    /\ Done("resume") /\ req.status = 200
    /\ req.pre[req.id].state = "PAUSED"
    /\ req.pre[req.id].num_wallets = IntV(7)
    /\ store[req.id].state = "ENABLED"
    /\ store[req.id].num_wallets = IntV(5)

\* the direct POST of a run_now was made and did not give a usable 200
DirectCallFailed ==
    Done("run_now") /\ req.invoke \in {"ok_unreadable", "http_error", "raised"}

\* C12: a run_now whose direct call fails (another status, an exception, a
\* timeout, an unreadable 200) raises nothing: it answers 200 with success
\* equal to what SchedulerService.run_job_now returned, which against the live
\* JobStore is whether client.run_job was called and returned; so also when
\* the wallet API gave no count and the fallback was used
C12_FailedDirectCallReportsTrigger ==
    DirectCallFailed
    => /\ req.status = 200
       /\ req.success = req.scheduler_success
       /\ mode = "live" =>
            (req.success <=> (req.calls["run_job"] = 1
                                /\ "run_job" \notin req.failed))

\* the wallet API timed out, the trigger went through and the direct call
\* timed out
C12_Witness ==
    /\ DirectCallFailed /\ req.invoke = "raised"
    /\ req.wallet_source = "fallback"
    /\ req.actual_wallet_count = IntV(Fallback)
    /\ mode = "live" /\ req.success
    /\ req.calls["run_job"] = 1

\* the count a refresh_all resolved for the jobs: the service-level
\* resolution, or the route-level one when the service made none
RefreshCount ==
    IF req.max_wallet_count # None THEN req.max_wallet_count
    ELSE req.actual_wallet_count

\* the jobs whose num_wallets differed from that count when the call came
StaleJobs ==
    { id \in JobIds : /\ req.pre[id].present
                      /\ req.pre[id].num_wallets # RefreshCount }

\* a refresh_all returned the number of stale jobs and rewrote exactly them
RefreshedExactlyStale ==
    /\ req.updated_count = Cardinality(StaleJobs)
    /\ req.rewritten = StaleJobs
    /\ \A id \in JobIds :
        store[id] = IF id \in StaleJobs
                    THEN ResumedJob(req.pre[id], RefreshCount)
                    ELSE req.pre[id]

-----------------------------------------------------------------------------
(* Properties of the resolvers: fallback marker and text parsing *)

\* the live resolution failed: no answer, another status than 200, or a 200
\* body of none of the supported shapes
LiveResolutionFailed ==
    Resolved /\ (~Is200 \/ last.outcome.body \in UnsupportedBodies)

\* C14: whenever the wallet-count endpoint returns the fallback constant
\* because the live resolution failed (no answer, non-200, or a 200 body that
\* could not be normalized), its result says source = "fallback"
C14_FallbackCountSaysFallback ==
    (last.who = "route" /\ LiveResolutionFailed)
    => /\ last.count = IntV(Fallback)
       /\ last.source = "fallback"

\* int(response.text.strip()), 1000 when it raises
TextParse(body) ==
    LET t == PyIntOfStr(Strip(RawText(body)))
    IN  IF t.exc THEN IntV(Fallback) ELSE t.val

\* the 200 body is not JSON, or is JSON of none of the supported shapes
NoStructuredShape(body) == body.t = "text" \/ body \in UnsupportedBodies

\* C20: for a 200 body that the structured shapes cannot normalize, each
\* resolver (the route-level one and the service-level one the job operations
\* store counts from) returns the integer parsed from the stripped body text,
\* and 1000 only when that parse fails
C20_TextParseInEveryResolver ==
    (Is200 /\ NoStructuredShape(last.outcome.body))
    => last.count = TextParse(last.outcome.body)

-----------------------------------------------------------------------------
(* Properties of the error classes and of run_now *)

ClientError == req.status \in 400..499

ServerError == req.status \in 500..599

\* the finished request was addressed to an id no job had when it arrived
UnknownId(ops) ==
    req.op \in ops /\ req.pc = "done" /\ ~req.pre[req.id].present

\* C15: get, update_schedule, run_now, pause, resume and delete addressed to
\* an id that no job has all end in a client error (4xx), never in a normal
\* response
C15_UnknownIdIsClientError ==
    UnknownId({"get", "update_schedule", "run_now", "pause", "resume", "delete"})
    => ClientError

\* the calls by which SchedulerService reads one job and changes it
ServiceCalls == CallNames \ {"list_jobs"}

\* C16: a create, update_schedule or delete whose JobStore call (create_job,
\* update_job, delete_job) failed ends in a server error (5xx), not in a
\* client error and not in success
C16_StoreFailureIsServerError ==
    (req.op \in {"create", "update_schedule", "delete"} /\ req.pc = "done"
        /\ req.failed \cap {"create_job", "update_job", "delete_job"} # {})
    => ServerError

\* the caller was told of a failure: an error status, or success = false
FailureReported == req.status >= 400 \/ ~req.success

\* C17: when a JobStore call made by create, update_schedule, pause, resume,
\* run_now or delete failed, the operation reports failure to its caller and
\* made the failed call exactly once
C17_StoreFailureReportedOnce ==
    (req.op \in {"create", "update_schedule", "pause", "resume", "run_now",
                 "delete"}
        /\ req.pc = "done" /\ req.failed \cap ServiceCalls # {})
    => /\ FailureReported
       /\ \A c \in req.failed : req.calls[c] = 1

\* C18: the success field of a run_now result is the outcome of the JobStore
\* trigger in every case, also when the direct call answered 200
C18_RunNowSuccessIsTrigger ==
    (Done("run_now") /\ req.status = 200)
    => req.success = req.scheduler_success

\* C19: after a run_now on an existing job, whatever num_wallets the request
\* carried, the direct payload and the job both hold the wallet count resolved
\* in that call, and both the JobStore trigger and the direct call were issued
C19_RunNowUsesResolvedCountTwice ==
    (Done("run_now") /\ req.pre[req.id].present)
    => /\ req.status = 200
       /\ req.calls["run_job"] = 1
       /\ req.invoke # "none"
       /\ req.payload.num_wallets = req.actual_wallet_count
       /\ store[req.id].present
       /\ store[req.id].num_wallets = req.actual_wallet_count

-----------------------------------------------------------------------------
(* Properties of CacheService and cached() *)

\* what a CacheService method returns without a working Redis
DownResult(op) ==
    CASE op = "get" -> None
      [] op = "set" -> BoolV(FALSE)
      [] op = "delete" -> BoolV(FALSE)
      [] op = "clear_pattern" -> IntV(0)

\* no Redis call has worked so far
CacheDown == \A e \in wrap.log : e.down

\* C22: without a redis_client, or when a Redis call raises, get returns
\* None, set False, delete False and clear_pattern 0; and as long as no Redis
\* call has worked, no call of the wrapper has raised, and every finished call
\* has called the wrapped function once and returned its result
C22_CacheFailureIsTolerated ==
    /\ \A e \in wrap.log : e.down => e.result = DownResult(e.op)
    /\ CacheDown =>
        \A t \in Tasks :
            /\ wrap.task[t].pc # "raised"
            /\ wrap.task[t].pc = "done" =>
                    /\ wrap.task[t].invoked = 1
                    /\ wrap.task[t].ret = wrap.task[t].result

\* Redis is configured and every call raised: all four methods were called,
\* both tasks finished a wrapped call
C22_Witness ==
    /\ wrap.backend = "present"
    /\ CacheDown
    /\ {e.op : e \in wrap.log} = {"get", "set", "delete", "clear_pattern"}
    /\ wrap.task[1].pc = "done" /\ wrap.task[1].ret = IntV(5)
    /\ wrap.task[2].pc = "done" /\ wrap.task[2].ret = IntV(7)

\* two resolutions by one resolver at the same time, each of which found
\* nothing to reuse and issued its own GET
BothFetched ==
    /\ prev.called /\ prev.who = last.who /\ prev.at = last.at
    /\ prev.gets = 1 /\ last.gets = 1

\* C21: when two resolutions running at the same time both miss and both
\* fetch, both write the cache, so that afterwards the entry of the resolver
\* holds the value written last
C21_BothMissesWriteLastWins ==
    BothFetched
    => /\ cache[CacheKey].present
       /\ cache[CacheKey].val = last.count

-----------------------------------------------------------------------------
(* Properties of rejected and failed requests *)

\* an update_schedule refused for its input: no schedule, a cron that is not
\* of 5 tokens, or an id without a job
RejectedUpdate ==
    /\ Done("update_schedule")
    /\ \/ req.status = 400 /\ Falsy(req.new_schedule)
       \/ /\ req.status = 400 /\ req.new_schedule.t = "str"
          /\ ~CronHasFiveParts(req.new_schedule.v)
       \/ req.status = 404

\* C23: a rejected update_schedule has made no wallet-count resolution and no
\* call of client.get_job or client.update_job, and every job is as it was
\* when the request arrived
C23_RejectedUpdateTouchesNothing ==
    RejectedUpdate
    => /\ req.actual_wallet_count = None
       /\ req.max_wallet_count = None
       /\ \A c \in ServiceCalls : req.calls[c] = 0
       /\ Jobs = req.pre

\* a valid cron for an id that has no job among the two jobs of the store
C23_Witness ==
    /\ RejectedUpdate /\ req.status = 404
    /\ mode = "live" /\ req.calls["list_jobs"] = 1
    /\ "list_jobs" \notin req.failed
    /\ req.id = "crypto-buy-analysis-base"
    /\ store["crypto-sell-analysis-ethereum"].present

\* C24: whatever the wallet API did, the count a resolver returned is the
\* count the other resolver returns for the same outcome
C24_ResolversAgree ==
    Resolved
    => /\ last.count = RouteGetWalletCount(last.outcome).val.count
       /\ last.count = ServiceGetWalletCount(last.outcome).val

\* C25: against the live JobStore, the wallet_count a successful create
\* reports equals the num_wallets of the job it stored, also when the wallet
\* API answers the fetches of that create differently
C25_CreateReportsStoredCount ==
    (Done("create") /\ mode = "live" /\ req.status = 200)
    => /\ store[req.id].present
       /\ store[req.id].num_wallets = req.actual_wallet_count

\* C26: a resume that reports failure leaves every job as it was when the
\* request arrived (num_wallets, description, state), whichever of get_job,
\* update_job and resume_job failed
C26_FailedResumeChangesNothing ==
    (Done("resume") /\ FailureReported) => Jobs = req.pre

\* what get(id) answers, and whether list() holds the id, when the listing
\* works
Found(id) == GetJob(id, FALSE).present /\ ListJobs(FALSE)[id].present

\* C27 as stated: in live and in mock mode, after a successful create the job
\* is found by get and list, and after a successful delete get finds none
C27_CreateGetDeleteAgree ==
    /\ (Done("create") /\ req.status = 200) => Found(req.id)
    /\ (Done("delete") /\ req.status = 200) => ~GetJob(req.id, FALSE).present

\* C27, amended: against the live JobStore, after a successful create a get
\* and a list whose listing works find the job, and after a successful delete
\* get finds none
C27_LiveCreateGetDeleteAgree ==
    mode = "live"
    => /\ (Done("create") /\ req.status = 200) => Found(req.id)
       /\ (Done("delete") /\ req.status = 200)
            => (req.pre[req.id].present /\ ~GetJob(req.id, FALSE).present)

\* the store was empty, a job was created, and a delete of it has succeeded
C27_Witness ==
    /\ mode = "live" /\ Done("delete") /\ req.status = 200
    /\ req.id = "crypto-buy-analysis-base"
    /\ req.pre[req.id].present
    /\ \A id \in JobIds \ {req.id} : ~req.pre[id].present
    /\ ~GetJob(req.id, FALSE).present

-----------------------------------------------------------------------------
(* Properties of pause_all, resume_all and refresh_all *)

\* a finished pause_all / resume_all attempted only jobs that were in the
\* given state, reports as total the number of jobs attempted, and left every
\* job that was in another state as it was
AttemptedOnly(state) ==
    /\ \A id \in req.attempted :
            req.pre[id].present /\ req.pre[id].state = state
    /\ req.total = Cardinality(req.attempted)
    /\ req.succeeded \subseteq req.attempted
    /\ \A id \in JobIds : req.pre[id].state # state => Jobs[id] = req.pre[id]

NoJobEnabled == \A id \in JobIds : ~(Jobs[id].present /\ Jobs[id].state = "ENABLED")

C29_RefreshAllGoesOnAfterFailure ==
    (Done("refresh_all") /\ "update_job" \in req.failed)
    => /\ req.calls["update_job"] = Cardinality(StaleJobs)
       /\ req.rewritten \subseteq StaleJobs
       /\ req.updated_count = Cardinality(req.rewritten)
       /\ \A id \in JobIds :
            store[id] = IF id \in req.rewritten
                        THEN ResumedJob(req.pre[id], req.max_wallet_count)
                        ELSE req.pre[id]

\* jobs holding 5, 7 and 1000, the count resolved to 5: the update of the
\* second job failed, the third was still rewritten
C29_Witness ==
    /\ Done("refresh_all") /\ req.pre = SeedStore
    /\ req.max_wallet_count = IntV(5)
    /\ req.rewritten = {"crypto-buy-analysis-base"}
    /\ req.updated_count = 1
    /\ store["crypto-sell-analysis-ethereum"].num_wallets = IntV(7)
    /\ store["crypto-buy-analysis-base"].num_wallets = IntV(5)

\* C30: after a refresh_all none of whose JobStore calls failed every job in
\* the JobStore holds the count that refresh_all resolved; and a refresh_all
\* that directly follows such a refresh_all and resolves the same count
\* calls update_job for no job, changes no job and returns 0
C30_RefreshAllIsIdempotent ==
    /\ (Done("refresh_all") /\ req.failed = {})
        => \A id \in JobIds :
              store[id].present => store[id].num_wallets = req.max_wallet_count
    /\ (Done("refresh_all") /\ req.before # None
            /\ req.max_wallet_count = req.before)
        => /\ req.updated_count = 0
           /\ req.rewritten = {}
           /\ req.calls["update_job"] = 0
           /\ store = req.pre

\* three jobs all brought to 5 by a first refresh_all; the second refresh_all
\* resolved 5 again and returned 0
C30_Witness ==
    /\ Done("refresh_all") /\ req.failed = {}
    /\ req.before = IntV(5) /\ req.max_wallet_count = IntV(5)
    /\ req.calls["list_jobs"] = 1
    /\ \A id \in JobIds : store[id].present /\ store[id].num_wallets = IntV(5)
    /\ store["crypto-sell-analysis-ethereum"].description = AutoDescription(IntV(5))
    /\ req.updated_count = 0

=============================================================================











